---------------------------- MODULE Spec2Model ----------------------------
(***************************************************************************)
(* The amortization engine of car-emi-calculator.py: calculate_car_emi,    *)
(* build_monthly_schedule, aggregate_yearly and the PctLoanPaid part of    *)
(* main, as a state machine over the button handler's position.            *)
(*                                                                         *)
(* Every amount in the program is a Python float (IEEE-754 binary64).      *)
(* The model computes with the same numbers: a float is a sign, a 53-bit   *)
(* significand and a binary exponent, and every operation is the exact     *)
(* result rounded to nearest, ties to even.  Significands do not fit the   *)
(* model checker's integers, so they are kept as little-endian sequences   *)
(* of 15-bit limbs.  The inputs are bounded so that every value stays in   *)
(* the normal binary64 range (no overflow, no subnormal); the sign of a    *)
(* zero is not kept (no operation of the program reads it).                *)
(***************************************************************************)
EXTENDS Integers, Sequences, FiniteSets

(***************************************************************************)
(* Call by value: Op applied to the values of its arguments, each          *)
(* evaluated once (an operator's argument is otherwise evaluated again at  *)
(* each of its uses).                                                      *)
(***************************************************************************)
Let1(a, Op(_)) == CHOOSE v \in {Op(x) : x \in {a}} : TRUE

Let2(a, b, Op(_, _)) == CHOOSE v \in {Op(x, y) : x \in {a}, y \in {b}} : TRUE

Let3(a, b, c, Op(_, _, _)) ==
    CHOOSE v \in {Op(x, y, z) : x \in {a}, y \in {b}, z \in {c}} : TRUE

(***************************************************************************)
(* Natural numbers of any size: little-endian limbs, no leading zero limb. *)
(***************************************************************************)
LimbBits == 15

Base == 2 ^ LimbBits

Limb(a, i) == IF i <= Len(a) THEN a[i] ELSE 0

MaxOf(S) == CHOOSE i \in S : \A j \in S : j <= i

BTrim(a) ==
    Let1(a \o << >>, LAMBDA x :
    Let1({i \in 1..Len(x) : x[i] # 0}, LAMBDA N :
        IF N = {} THEN << >> ELSE SubSeq(x, 1, MaxOf(N))))

RECURSIVE BFromNat(_)
BFromNat(n) == IF n = 0 THEN << >> ELSE <<n % Base>> \o BFromNat(n \div Base)

\* The number whose columns are cols (a column may be negative or exceed a
\* limb; the number is >= 0): every column keeps its value modulo the base
\* and hands the rest to the next, until every column is a limb.
RECURSIVE Carry(_)
Carry(cols) ==
    Let1(cols \o << >>, LAMBDA c :
        IF \A i \in 1..Len(c) : c[i] >= 0 /\ c[i] < Base
        THEN BTrim(c)
        ELSE Carry([i \in 1..(Len(c) + 1) |->
                      (IF i <= Len(c) THEN c[i] % Base ELSE 0)
                      + (IF i > 1 THEN c[i - 1] \div Base ELSE 0)]))

BAdd(a, b) ==
    Let2(a, b, LAMBDA x, y :
        Carry([i \in 1..(IF Len(x) > Len(y) THEN Len(x) ELSE Len(y)) |->
                 Limb(x, i) + Limb(y, i)]))

\* a - b for a >= b
BSub(a, b) ==
    Let2(a, b, LAMBDA x, y : Carry([i \in 1..Len(x) |-> x[i] - Limb(y, i)]))

\* -1, 0, 1 as a < b, a = b, a > b
BCmp(a, b) ==
    Let2(a, b, LAMBDA x, y :
        IF Len(x) < Len(y) THEN -1
        ELSE IF Len(x) > Len(y) THEN 1
        ELSE Let1({i \in 1..Len(x) : x[i] # y[i]}, LAMBDA D :
                 IF D = {} THEN 0
                 ELSE Let1(MaxOf(D), LAMBDA i :
                      IF x[i] < y[i] THEN -1 ELSE 1)))

\* a * k for a limb k
BMulSmall(a, k) ==
    Let1(a, LAMBDA x : Carry([i \in 1..Len(x) |-> x[i] * k]))

ShiftLimbs(a, n) ==
    Let1(a, LAMBDA x : IF x = << >> THEN x ELSE [i \in 1..n |-> 0] \o x)

RECURSIVE BMul(_, _)
BMul(a, b) ==
    Let2(a, b, LAMBDA x, y :
        IF Len(y) = 0 THEN << >>
        ELSE IF Len(y) = 1 THEN BMulSmall(x, y[1])
        ELSE BAdd(BMul(x, SubSeq(y, 1, Len(y) \div 2)),
                  ShiftLimbs(BMul(x, SubSeq(y, (Len(y) \div 2) + 1, Len(y))),
                             Len(y) \div 2)))

\* a^n for n >= 1, by squaring
RECURSIVE BPow(_, _)
BPow(a, n) ==
    Let2(a, n, LAMBDA x, k :
        IF k = 1 THEN x
        ELSE Let1(BPow(x, k \div 2), LAMBDA h :
             IF k % 2 = 0 THEN BMul(h, h) ELSE BMul(BMul(h, h), x)))

\* a * 2^n
BShl(a, n) ==
    Let1(n, LAMBDA k :
        ShiftLimbs(BMulSmall(a, 2 ^ (k % LimbBits)), k \div LimbBits))

\* floor(a / 2^n)
BShr(a, n) ==
    Let2(a, n, LAMBDA x, k :
    Let2(IF k \div LimbBits >= Len(x) THEN << >>
         ELSE SubSeq(x, (k \div LimbBits) + 1, Len(x)),
         2 ^ (k % LimbBits), LAMBDA h, p :
        BTrim([i \in 1..Len(h) |->
                 (h[i] \div p) + (Limb(h, i + 1) % p) * (Base \div p)])))

\* whether a is a multiple of 2^n
BLowZero(a, n) ==
    Let2(a, n, LAMBDA x, k :
        /\ \A i \in 1..(k \div LimbBits) : Limb(x, i) = 0
        /\ Limb(x, (k \div LimbBits) + 1) % (2 ^ (k % LimbBits)) = 0)

RECURSIVE SmallBitLen(_)
SmallBitLen(k) == IF k = 0 THEN 0 ELSE 1 + SmallBitLen(k \div 2)

BitLen(a) ==
    Let1(a, LAMBDA x :
        IF x = << >> THEN 0
        ELSE LimbBits * (Len(x) - 1) + SmallBitLen(x[Len(x)]))

BOdd(a) == Limb(a, 1) % 2 = 1

\* k >= 1 more bits of a long division by d, from <<quotient, remainder>> with
\* remainder < d to the same k bits later; k is halved at every step
RECURSIVE BDivBits(_, _, _)
BDivBits(qr, d, k) ==
    Let3(qr, d, k, LAMBDA x, y, n :
        IF n = 1
        THEN Let1(BMulSmall(x[2], 2), LAMBDA r2 :
             IF BCmp(r2, y) >= 0
             THEN <<BAdd(BMulSmall(x[1], 2), <<1>>), BSub(r2, y)>>
             ELSE <<BMulSmall(x[1], 2), r2>>)
        ELSE Let1(BDivBits(x, y, n \div 2), LAMBDA half :
             BDivBits(half, y, n - (n \div 2))))

\* <<floor(n * 2^k / d), the remainder>> for n < 2d and k >= 1
BDivShl(n, d, k) ==
    Let2(n, d, LAMBDA x, y :
        IF BCmp(x, y) >= 0
        THEN BDivBits(<<(<<1>>), BSub(x, y)>>, y, k)
        ELSE BDivBits(<<(<< >>), x>>, y, k))

(***************************************************************************)
(* Python floats.  [s, m, e] is (-1)^s * m * 2^e with 2^52 <= m < 2^53;    *)
(* zero is Zero.                                                           *)
(***************************************************************************)
Prec == 53

Zero == [s |-> 0, m |-> << >>, e |-> 0]

IsZero(x) == x.m = << >>

\* m * 2^e (and, with sticky, a little more) rounded to nearest, ties to even
Round(s, m, e, sticky) ==
    Let3(m, e, sticky, LAMBDA n, x, st :
    Let1(BitLen(n) - Prec, LAMBDA sh :
        IF sh <= 0
        THEN [s |-> s, m |-> BShl(n, -sh), e |-> x + sh]
        ELSE Let1(BShr(n, sh), LAMBDA q :
             Let1(IF /\ BOdd(BShr(n, sh - 1))
                     /\ (st \/ ~BLowZero(n, sh - 1) \/ BOdd(q))
                  THEN BAdd(q, <<1>>) ELSE q, LAMBDA q1 :
                 IF BitLen(q1) > Prec
                 THEN [s |-> s, m |-> BShr(q1, 1), e |-> x + sh + 1]
                 ELSE [s |-> s, m |-> q1, e |-> x + sh]))))

\* int -> float (n >= 0)
FromInt(n) == IF n = 0 THEN Zero ELSE Round(0, BFromNat(n), 0, FALSE)

\* the float n * 2^e for a small n > 0
Scaled(n, e) == Round(0, BFromNat(n), e, FALSE)

FNeg(x) == Let1(x, LAMBDA a : IF IsZero(a) THEN a ELSE [a EXCEPT !.s = 1 - a.s])

FAdd(x, y) ==
    Let2(x, y, LAMBDA p, q :
        IF IsZero(p) THEN q
        ELSE IF IsZero(q) THEN p
        ELSE Let1(IF p.e < q.e THEN p.e ELSE q.e, LAMBDA e :
             Let2(BShl(p.m, p.e - e), BShl(q.m, q.e - e), LAMBDA a, b :
                 IF p.s = q.s THEN Round(p.s, BAdd(a, b), e, FALSE)
                 ELSE Let1(BCmp(a, b), LAMBDA c :
                      IF c = 0 THEN Zero
                      ELSE IF c > 0 THEN Round(p.s, BSub(a, b), e, FALSE)
                      ELSE Round(q.s, BSub(b, a), e, FALSE)))))

FSub(x, y) == FAdd(x, FNeg(y))

FMul(x, y) ==
    Let2(x, y, LAMBDA p, q :
        IF IsZero(p) \/ IsZero(q) THEN Zero
        ELSE Round((p.s + q.s) % 2, BMul(p.m, q.m), p.e + q.e, FALSE))

\* x / y for y # 0
FDiv(x, y) ==
    Let2(x, y, LAMBDA p, q :
        IF IsZero(p) THEN Zero
        ELSE Let1(BDivShl(p.m, q.m, Prec + 2), LAMBDA qr :
             Round((p.s + q.s) % 2, qr[1], p.e - q.e - (Prec + 2),
                   qr[2] # << >>)))

\* x ** n for x > 0 and an int n > 0.  float_pow hands the power to libm's pow,
\* which is accurate to about half a unit in the last place and not always
\* correctly rounded: when the exact power lies within 1/32 of a unit of the
\* midpoint of two floats it may return either of them; otherwise it returns
\* the nearest.  The set of the floats it may return:
FPowSet(x, n) ==
    Let2(BPow(x.m, n), x.e * n, LAMBDA m, e :
    Let1(BitLen(m) - Prec, LAMBDA sh :
        IF sh >= 5 /\ Limb(BShr(m, sh - 5), 1) % 32 \in {15, 16}
        THEN { Round(0, BShr(m, sh), e + sh, FALSE),
               Round(0, BAdd(BShr(m, sh), <<1>>), e + sh, FALSE) }
        ELSE { Round(0, m, e, FALSE) }))

\* -1, 0, 1 as x < y, x = y, x > y
FCmp(a, b) ==
    Let2(a, b, LAMBDA x, y :
        IF IsZero(x) /\ IsZero(y) THEN 0
        ELSE IF IsZero(x) THEN (IF y.s = 0 THEN -1 ELSE 1)
        ELSE IF IsZero(y) THEN (IF x.s = 0 THEN 1 ELSE -1)
        ELSE IF x.s # y.s THEN (IF x.s = 0 THEN 1 ELSE -1)
        ELSE Let1(IF x.e # y.e THEN (IF x.e > y.e THEN 1 ELSE -1)
                  ELSE BCmp(x.m, y.m), LAMBDA mag :
                 IF x.s = 0 THEN mag ELSE -mag))

FLt(x, y) == FCmp(x, y) < 0
FLe(x, y) == FCmp(x, y) <= 0
FGt(x, y) == FCmp(x, y) > 0
FGe(x, y) == FCmp(x, y) >= 0

(***************************************************************************)
(* The bounds of the model: the inputs the button handler is run on.       *)
(***************************************************************************)
MaxTenureYears == 2

CarPrices == {100000, 500000}

DownPaymentPercentages == {0, 10, 100}

\* 0 %, 9 % (the form's default), 2^-60 %, a positive rate so small that
\* 1 + monthly_interest_rate is 1.0, and 10000 %, a rate so large that
\* (1 + monthly_interest_rate) ** total_months passes 2^53 within two years
\* (the form sets no upper limit on the rate)
InterestRates == {Zero, FromInt(9), Scaled(1, -60), FromInt(10000)}

MonthlyPrepayments == {0, 20000}

QuarterlyPrepayments == {0, 30000}

OneTimePrepayments == {0, 100000}

StartYears == {2024}

(***************************************************************************)
(* The program.                                                            *)
(***************************************************************************)
VARIABLES
    car_price, down_payment_percentage, annual_interest_rate,
    loan_tenure_years, insurance_or_fees, start_year,
    monthly_prepay, quarterly_prepay, one_time_prepay,
    principal_before_one_time, principal, monthly_interest_rate, emi,
    balance, current_month, data_rows, df_yearly, pc

inputs == <<car_price, down_payment_percentage, annual_interest_rate,
            loan_tenure_years, insurance_or_fees, start_year,
            monthly_prepay, quarterly_prepay, one_time_prepay>>

vars == <<inputs, principal_before_one_time, principal,
          monthly_interest_rate, emi, balance, current_month, data_rows,
          df_yearly, pc>>

One == FromInt(1)

Hundred == FromInt(100)

monthly_rate(rate) == FDiv(FDiv(rate, Hundred), FromInt(12))

total_months(years) == years * 12

Returns(v) == [ok |-> TRUE, v |-> v]

Raises(exc) == [ok |-> FALSE, v |-> exc]

\* EMI = P * [r(1+r)^n] / [(1+r)^n - 1] for one value pw of (1+r)**n
emi_formula(p, r, pw) ==
    Let1(FSub(pw, One), LAMBDA den :
        IF IsZero(den) THEN Raises("ZeroDivisionError")
        ELSE Returns(FDiv(FMul(FMul(p, r), pw), den)))

\* what a call may do: return a float, or raise
calculate_car_emi(p, rate, years) ==
    Let2(monthly_rate(rate), total_months(years), LAMBDA r, n :
        IF n <= 0 THEN {Returns(Zero)}
        ELSE IF IsZero(r) THEN {Returns(FDiv(p, FromInt(n)))}
        ELSE {emi_formula(p, r, pw) : pw \in FPowSet(FAdd(One, r), n)})

month_abbr == <<"Jan", "Feb", "Mar", "Apr", "May", "Jun",
                "Jul", "Aug", "Sep", "Oct", "Nov", "Dec">>

\* variant: the quarter counted from the month before the loan's first month
prepay_quarter_shifted(month, monthly_prepayment, quarterly_prepayment) ==
    Let1(IF monthly_prepayment > 0
         THEN FAdd(Zero, FromInt(monthly_prepayment)) ELSE Zero, LAMBDA a :
        IF month % 3 = 1 /\ quarterly_prepayment > 0
        THEN FAdd(a, FromInt(quarterly_prepayment)) ELSE a)

prepay_amount(month, monthly_prepayment, quarterly_prepayment) ==
    Let1(IF monthly_prepayment > 0
         THEN FAdd(Zero, FromInt(monthly_prepayment)) ELSE Zero, LAMBDA a :
        IF month % 3 = 0 /\ quarterly_prepayment > 0
        THEN FAdd(a, FromInt(quarterly_prepayment)) ELSE a)

\* variant: the balance is left as it is
no_clamp(x) == x

\* if x < 0: x = 0
clamp(x) == Let1(x, LAMBDA b : IF FLt(b, Zero) THEN Zero ELSE b)

\* one pass of the while loop: the row it appends
schedule_row(bal, month, e, r, mp, qp, start) ==
    Let1(FMul(bal, r), LAMBDA interest_payment :
    Let2(FSub(e, interest_payment), prepay_amount(month, mp, qp),
         LAMBDA principal_payment, prepay :
        [Year          |-> start + ((month - 1) \div 12),
         MonthNum      |-> month,
         MonthAbbr     |-> month_abbr[((month - 1) % 12) + 1],
         OldBalance    |-> bal,
         InterestPaid  |-> interest_payment,
         PrincipalPaid |-> principal_payment,
         Prepayment    |-> prepay,
         NewBalance    |-> clamp(FSub(FSub(bal, principal_payment), prepay))]))

loop_condition(bal, month, years) ==
    FGt(bal, Zero) /\ month <= total_months(years)

\* Series.sum(): numpy's pairwise add.reduce.  Fewer than 8 numbers are added
\* in order; 8 to 128 go to 8 running sums, taken in turn, that are added in
\* pairs, and what is left over of the last 8 is added in order.  (A year has
\* at most 12 rows; more than 128 numbers are split in halves, not modelled.)
RECURSIVE SumFrom(_, _, _, _)
SumFrom(acc, a, i, step) ==
    IF i > Len(a) THEN acc
    ELSE Let1(FAdd(acc, a[i]), LAMBDA t : SumFrom(t, a, i + step, step))

np_sum(a) ==
    Let1(a, LAMBDA x :
        IF Len(x) < 8 THEN SumFrom(Zero, x, 1, 1)
        ELSE Let1(SubSeq(x, 1, Len(x) - (Len(x) % 8)), LAMBDA blocks :
             Let1([j \in 1..8 |-> SumFrom(blocks[j], blocks, j + 8, 8)] \o << >>,
                  LAMBDA r :
             SumFrom(FAdd(FAdd(FAdd(r[1], r[2]), FAdd(r[3], r[4])),
                          FAdd(FAdd(r[5], r[6]), FAdd(r[7], r[8]))),
                     x, Len(blocks) + 1, 1))))

Column(df, name) == [i \in 1..Len(df) |-> df[i][name]] \o << >>

\* variant: the balance of the year's first row
aggregator_first(x) ==
    [PrincipalSum  |-> np_sum(Column(x, "PrincipalPaid")),
     PrepaymentSum |-> np_sum(Column(x, "Prepayment")),
     InterestSum   |-> np_sum(Column(x, "InterestPaid")),
     FinalBalance  |-> x[1].NewBalance]

\* the aggregator of one year's rows
aggregator(x) ==
    [PrincipalSum  |-> np_sum(Column(x, "PrincipalPaid")),
     PrepaymentSum |-> np_sum(Column(x, "Prepayment")),
     InterestSum   |-> np_sum(Column(x, "InterestPaid")),
     FinalBalance  |-> x[Len(x)].NewBalance]

\* groupby("Year").apply(aggregator), merged on all_years with how="left",
\* fillna(0); then TotalPayment and the clamp of FinalBalance
yearly_row(df_monthly, year) ==
    Let1(SelectSeq(df_monthly, LAMBDA row : row.Year = year), LAMBDA x :
    Let1(IF x = << >>
         THEN [PrincipalSum |-> Zero, PrepaymentSum |-> Zero,
               InterestSum |-> Zero, FinalBalance |-> Zero]
         ELSE aggregator(x), LAMBDA g :
        [Year          |-> year,
         PrincipalSum  |-> g.PrincipalSum,
         PrepaymentSum |-> g.PrepaymentSum,
         InterestSum   |-> g.InterestSum,
         FinalBalance  |-> IF FGt(g.FinalBalance, Zero)
                           THEN g.FinalBalance ELSE Zero,
         TotalPayment  |-> FAdd(FAdd(g.PrincipalSum, g.InterestSum),
                                g.PrepaymentSum)]))

\* variant: the grouped rows alone, not merged on all_years
grouped_only(df_monthly, start, years) ==
    IF years <= 0 THEN << >>
    ELSE SelectSeq([k \in 1..years |-> yearly_row(df_monthly, start + k - 1)]
                       \o << >>,
                   LAMBDA g : \E i \in 1..Len(df_monthly) :
                                 df_monthly[i].Year = g.Year)

aggregate_yearly(df_monthly, start, years) ==
    IF years <= 0 THEN << >>
    ELSE [k \in 1..years |-> yearly_row(df_monthly, start + k - 1)] \o << >>

\* Series.cumsum()
cumsum(a) == [i \in 1..Len(a) |-> SumFrom(a[1], SubSeq(a, 1, i), 2, 1)] \o << >>

\* main, lines 223-237: the PctLoanPaid of every yearly row
pct_loan_paid(yearly, initial_car_loan_principal) ==
    Let2(cumsum(Column(yearly, "PrincipalSum")),
         cumsum(Column(yearly, "PrepaymentSum")), LAMBDA cp, cq :
        [i \in 1..Len(yearly) |->
            Let1(FAdd(cp[i], cq[i]), LAMBDA cumulative :
            Let1(FMul(FDiv(cumulative, initial_car_loan_principal), Hundred),
                 LAMBDA pct :
                [Year          |-> yearly[i].Year,
                 PrincipalSum  |-> yearly[i].PrincipalSum,
                 PrepaymentSum |-> yearly[i].PrepaymentSum,
                 InterestSum   |-> yearly[i].InterestSum,
                 FinalBalance  |-> yearly[i].FinalBalance,
                 TotalPayment  |-> yearly[i].TotalPayment,
                 CumulativePP  |-> cumulative,
                 PctLoanPaid   |->
                    IF FLe(yearly[i].FinalBalance, Zero) THEN Hundred
                    ELSE IF ~FGt(initial_car_loan_principal, Zero) THEN Hundred
                    ELSE IF FGt(pct, Hundred) THEN Hundred
                    ELSE pct]))] \o << >>)

\* The inputs of the form, within its limits: the tenure is at least 1
\* (min_value=1), the down payment 0..100 %, the amounts not negative.
Init ==
    /\ car_price \in CarPrices
    /\ down_payment_percentage \in DownPaymentPercentages
    /\ annual_interest_rate \in InterestRates
    /\ loan_tenure_years \in 1..MaxTenureYears
    /\ insurance_or_fees = 0
    /\ start_year \in StartYears
    /\ monthly_prepay \in MonthlyPrepayments
    /\ quarterly_prepay \in QuarterlyPrepayments
    /\ one_time_prepay \in OneTimePrepayments
    /\ principal_before_one_time = Zero
    /\ principal = Zero
    /\ monthly_interest_rate = Zero
    /\ emi = Zero
    /\ balance = Zero
    /\ current_month = 1
    /\ data_rows = << >>
    /\ df_yearly = << >>
    /\ pc = "input"

\* main, lines 194-202: the principal
down_payment_amt(price, pct) == FDiv(FromInt(price * pct), Hundred)

principal_before(price, pct, fees) ==
    FSub(FSub(FromInt(price), down_payment_amt(price, pct)), FromInt(fees))

\* the button: the principal, then build_monthly_schedule up to its loop
Calculate ==
    /\ pc = "input"
    /\ \E before \in {principal_before(car_price, down_payment_percentage,
                                       insurance_or_fees)} :
       \E p \in {clamp(FSub(before, FromInt(one_time_prepay)))} :
       \E res \in calculate_car_emi(p, annual_interest_rate, loan_tenure_years) :
          /\ principal_before_one_time' = before
          /\ principal' = p
          /\ balance' = p
          /\ emi' = IF res.ok THEN res.v ELSE Zero
          /\ pc' = IF res.ok THEN "loop" ELSE res.v
    /\ monthly_interest_rate' = monthly_rate(annual_interest_rate)
    /\ current_month' = 1
    /\ data_rows' = << >>
    /\ UNCHANGED <<inputs, df_yearly>>

\* one pass of build_monthly_schedule's while loop
LoopBody ==
    /\ pc = "loop"
    /\ loop_condition(balance, current_month, loan_tenure_years)
    /\ \E row \in {schedule_row(balance, current_month, emi,
                                monthly_interest_rate, monthly_prepay,
                                quarterly_prepay, start_year)} :
          /\ data_rows' = Append(data_rows, row)
          /\ balance' = row.NewBalance
    /\ current_month' = current_month + 1
    /\ UNCHANGED <<inputs, principal_before_one_time, principal,
                   monthly_interest_rate, emi, df_yearly, pc>>

\* the loop ends and build_monthly_schedule returns data_rows
LoopExit ==
    /\ pc = "loop"
    /\ ~loop_condition(balance, current_month, loan_tenure_years)
    /\ pc' = "aggregate"
    /\ UNCHANGED <<inputs, principal_before_one_time, principal,
                   monthly_interest_rate, emi, balance, current_month,
                   data_rows, df_yearly>>

\* main, line 215
AggregateYearly ==
    /\ pc = "aggregate"
    /\ df_yearly' = aggregate_yearly(data_rows, start_year, loan_tenure_years)
    /\ pc' = "pct"
    /\ UNCHANGED <<inputs, principal_before_one_time, principal,
                   monthly_interest_rate, emi, balance, current_month,
                   data_rows>>

\* main, lines 223-237
PctLoanPaid ==
    /\ pc = "pct"
    /\ df_yearly' = pct_loan_paid(df_yearly, principal_before_one_time)
    /\ pc' = "done"
    /\ UNCHANGED <<inputs, principal_before_one_time, principal,
                   monthly_interest_rate, emi, balance, current_month,
                   data_rows>>

Next == Calculate \/ LoopBody \/ LoopExit \/ AggregateYearly \/ PctLoanPaid

Spec == Init /\ [][Next]_vars

\* the same steps, and the handler is not left unfinished
FairSpec == Spec /\ WF_vars(Next)

(***************************************************************************)
(* The properties.                                                         *)
(***************************************************************************)
\* build_monthly_schedule has just returned data_rows
Returned == pc = "aggregate"

\* aggregate_yearly has just returned df_yearly
Aggregated == pc = "pct"

NoPrepayments == monthly_prepay = 0 /\ quarterly_prepay = 0

LastRow == data_rows[Len(data_rows)]

\* C1: in every returned schedule each record's NewBalance is
\* max(0, OldBalance - PrincipalPaid - Prepayment), the first record opens at
\* the principal and every later one at the previous record's NewBalance.
C1_BalanceRecurrence ==
    Returned =>
        \A i \in 1..Len(data_rows) :
            LET row == data_rows[i]
                d   == FSub(FSub(row.OldBalance, row.PrincipalPaid),
                            row.Prepayment)
            IN  /\ row.NewBalance = (IF FLt(d, Zero) THEN Zero ELSE d)
                /\ row.OldBalance = (IF i = 1 THEN principal
                                     ELSE data_rows[i - 1].NewBalance)

\* a schedule of several records whose last deduction went below 0
C1_Witness ==
    /\ Returned
    /\ Len(data_rows) >= 2
    /\ FLt(FSub(FSub(LastRow.OldBalance, LastRow.PrincipalPaid),
                LastRow.Prepayment), Zero)
    /\ LastRow.NewBalance = Zero

C2_Shape ==
    /\ pc = "loop" => current_month = Len(data_rows) + 1
    /\ Returned =>
        /\ \A i \in 1..Len(data_rows) : data_rows[i].MonthNum = i
        /\ Len(data_rows) <= total_months(loan_tenure_years)
        /\ \A i \in 1..(Len(data_rows) - 1) :
              data_rows[i].NewBalance # Zero
        /\ (Len(data_rows) > 0
              /\ Len(data_rows) < total_months(loan_tenure_years))
              => LastRow.NewBalance = Zero

\* C2: on every input build_monthly_schedule ends by returning a schedule,
\* never by an error before it, and the schedule is numbered 1..n with
\* n <= loan_tenure_years*12, has no record but the last with NewBalance 0,
\* and ends on NewBalance 0 when n is less than loan_tenure_years*12.
C2_TerminatesNumbered == pc # "ZeroDivisionError" /\ C2_Shape

YearHasRecord(year) == \E i \in 1..Len(data_rows) : data_rows[i].Year = year

\* C3: aggregate_yearly returns loan_tenure_years rows, for the years
\* start_year, start_year+1, ... in that order, and a year without a monthly
\* record has all its sums, TotalPayment and FinalBalance 0.
C3_OneRowPerYear ==
    Aggregated =>
        /\ Len(df_yearly) = loan_tenure_years
        /\ \A k \in 1..Len(df_yearly) :
              /\ df_yearly[k].Year = start_year + k - 1
              /\ ~YearHasRecord(df_yearly[k].Year) =>
                    /\ df_yearly[k].PrincipalSum = Zero
                    /\ df_yearly[k].PrepaymentSum = Zero
                    /\ df_yearly[k].InterestSum = Zero
                    /\ df_yearly[k].TotalPayment = Zero
                    /\ df_yearly[k].FinalBalance = Zero

\* a two-year loan paid off within its first year
C3_Witness ==
    /\ Aggregated
    /\ loan_tenure_years = 2
    /\ Len(data_rows) \in 1..12
    /\ Len(df_yearly) = 2
    /\ df_yearly[1].TotalPayment # Zero
    /\ df_yearly[2].TotalPayment = Zero

PctDone == pc = "done"

\* C4: in the finished yearly summary PctLoanPaid never falls from one year
\* to the next, never exceeds 100, is 100 in the year FinalBalance first
\* reaches 0 and stays 100 in every later year.
C4_PctMonotoneTo100 ==
    PctDone =>
        /\ \A k \in 1..(Len(df_yearly) - 1) :
              FLe(df_yearly[k].PctLoanPaid, df_yearly[k + 1].PctLoanPaid)
        /\ \A k \in 1..Len(df_yearly) :
              /\ FLe(df_yearly[k].PctLoanPaid, Hundred)
              /\ df_yearly[k].FinalBalance = Zero =>
                    \A j \in k..Len(df_yearly) :
                        df_yearly[j].PctLoanPaid = Hundred

\* C5: at rate 0 with a tenure and no prepayments the installment is
\* principal / (loan_tenure_years*12), every record has InterestPaid 0 and
\* PrincipalPaid equal to the installment, and a positive principal gives
\* loan_tenure_years*12 records, the last with NewBalance exactly 0.
C5_ZeroRateExact ==
    (Returned /\ IsZero(annual_interest_rate) /\ loan_tenure_years > 0
        /\ NoPrepayments) =>
        /\ emi = FDiv(principal, FromInt(total_months(loan_tenure_years)))
        /\ \A i \in 1..Len(data_rows) :
              /\ data_rows[i].InterestPaid = Zero
              /\ data_rows[i].PrincipalPaid = emi
        /\ FGt(principal, Zero) =>
              /\ Len(data_rows) = total_months(loan_tenure_years)
              /\ LastRow.NewBalance = Zero

\* C6: at a monthly rate above 0 with a tenure and no prepayments the
\* installment brings the balance of a positive principal to exactly 0 at
\* month loan_tenure_years*12 and not before.
C6_ExactAmortization ==
    (Returned /\ FGt(monthly_interest_rate, Zero) /\ loan_tenure_years > 0
        /\ NoPrepayments /\ FGt(principal, Zero)) =>
        /\ Len(data_rows) = total_months(loan_tenure_years)
        /\ LastRow.NewBalance = Zero
        /\ \A i \in 1..(Len(data_rows) - 1) : data_rows[i].NewBalance # Zero

\* C7: a principal of 0 or a tenure of 0 never ends in an error:
\* calculate_car_emi returns 0 for a tenure of 0, the schedule is empty, and
\* for a principal of 0 the summary has loan_tenure_years rows of zeros with
\* PctLoanPaid 100.
C7_DegenerateNeverFails ==
    (pc # "input" /\ (IsZero(principal) \/ loan_tenure_years = 0)) =>
        /\ pc # "ZeroDivisionError"
        /\ loan_tenure_years = 0 => emi = Zero
        /\ data_rows = << >>
        /\ (PctDone /\ IsZero(principal)) =>
              /\ Len(df_yearly) = loan_tenure_years
              /\ \A k \in 1..Len(df_yearly) :
                    /\ df_yearly[k].PrincipalSum = Zero
                    /\ df_yearly[k].PrepaymentSum = Zero
                    /\ df_yearly[k].InterestSum = Zero
                    /\ df_yearly[k].TotalPayment = Zero
                    /\ df_yearly[k].FinalBalance = Zero
                    /\ df_yearly[k].PctLoanPaid = Hundred

\* what a record of month m carries by the rule, as an amount of money
PrepaymentDue(m) ==
    (IF monthly_prepay > 0 THEN monthly_prepay ELSE 0)
    + (IF quarterly_prepay > 0 /\ m % 3 = 0 THEN quarterly_prepay ELSE 0)

\* C8: every record's Prepayment is the monthly prepayment (when above 0)
\* plus, in the months whose number from the loan's first month is a
\* multiple of 3, the quarterly prepayment (when above 0); the payoff month
\* records it in full.
C8_PrepaymentRule ==
    Returned =>
        \A i \in 1..Len(data_rows) :
            data_rows[i].Prepayment = FromInt(PrepaymentDue(data_rows[i].MonthNum))

\* a payoff month that is a multiple of 3 and records both prepayments, more
\* than the balance that was left
C8_Witness ==
    /\ Returned
    /\ monthly_prepay > 0 /\ quarterly_prepay > 0
    /\ Len(data_rows) >= 3
    /\ Len(data_rows) % 3 = 0
    /\ LastRow.NewBalance = Zero
    /\ LastRow.Prepayment = FromInt(monthly_prepay + quarterly_prepay)
    /\ FGt(LastRow.Prepayment, LastRow.OldBalance)

\* the records k with start_year + floor((k-1)/12) = year, in order
RecordsOfYear(year) ==
    [j \in 1..Cardinality({k \in 1..Len(data_rows) :
                             start_year + ((k - 1) \div 12) = year}) |->
        data_rows[(year - start_year) * 12 + j]] \o << >>

\* C9: for every year with a record, the yearly sums are the sums (as
\* Series.sum adds them) over the records k with
\* start_year + floor((k-1)/12) = that year, FinalBalance is the NewBalance of
\* the last of them, floored at 0, and TotalPayment is
\* PrincipalSum + InterestSum + PrepaymentSum.
C9_YearlyTotals ==
    Aggregated =>
        \A k \in 1..Len(df_yearly) :
            LET recs == RecordsOfYear(start_year + k - 1)
                y    == df_yearly[k]
            IN  Len(recs) > 0 =>
                  /\ y.PrincipalSum = np_sum(Column(recs, "PrincipalPaid"))
                  /\ y.PrepaymentSum = np_sum(Column(recs, "Prepayment"))
                  /\ y.InterestSum = np_sum(Column(recs, "InterestPaid"))
                  /\ y.FinalBalance =
                        (IF FLt(recs[Len(recs)].NewBalance, Zero) THEN Zero
                         ELSE recs[Len(recs)].NewBalance)
                  /\ y.TotalPayment =
                        FAdd(FAdd(y.PrincipalSum, y.InterestSum),
                             y.PrepaymentSum)

\* two years with records, the second one shorter, the first with a balance
\* left at its end
C9_Witness ==
    /\ Aggregated
    /\ Len(data_rows) \in 13..23
    /\ FGt(df_yearly[1].FinalBalance, Zero)
    /\ df_yearly[1].FinalBalance = data_rows[12].NewBalance
    /\ df_yearly[1].FinalBalance # data_rows[1].NewBalance
    /\ df_yearly[2].PrepaymentSum # Zero

\* C10: in every record 0 <= NewBalance <= OldBalance <= principal, and
\* PrincipalPaid >= 0.
C10_BalanceNeverGrows ==
    Returned =>
        \A i \in 1..Len(data_rows) :
            /\ FGe(data_rows[i].NewBalance, Zero)
            /\ FLe(data_rows[i].NewBalance, data_rows[i].OldBalance)
            /\ FLe(data_rows[i].OldBalance, principal)
            /\ FGe(data_rows[i].PrincipalPaid, Zero)
=============================================================================
